---- MODULE Spec2Model ----
(***************************************************************************)
(* Model of src/app.py: the RealTimeProcessor (vehicle registry, phone     *)
(* location maps, haversine ETA) and the request handlers that read and    *)
(* write it.  Flask serves requests on threads, so a handler is a sequence *)
(* of steps of one thread; the steps of different threads interleave.      *)
(*                                                                         *)
(* Units: a coordinate is an integer number of 1e-4 degrees (13.3409       *)
(* degrees is 133409); a distance is in metres; an ETA and a stored        *)
(* distance are in tenths (of a minute, of a kilometre), which is the one  *)
(* decimal place round(x, 1) keeps.                                        *)
(***************************************************************************)
EXTENDS Integers, Sequences, FiniteSets, TLC

(***************************************************************************)
(* JSON values a coordinate component can hold.                            *)
(***************************************************************************)
Num(n) == [k |-> "num", v |-> n]
\* JSON null, or a key that .get() does not find
None == [k |-> "none", v |-> 0]
\* a non-empty string that float() does not parse, e.g. "abc"
Str == [k |-> "str", v |-> 0]

\* Python truthiness of a coordinate component (line 73, all([...]))
Truthy(c) == IF c.k = "num" THEN c.v # 0 ELSE c.k = "str"

\* float(c) raises ValueError on a non-numeric string (lines 79-80)
FloatRaises(c) == c.k = "str"

Abs(n) == IF n < 0 THEN 0 - n ELSE n

(***************************************************************************)
(* Integer square root, by bisection on lo..hi.                            *)
(***************************************************************************)
RECURSIVE SqrtIter(_, _, _)
SqrtIter(n, lo, hi) ==
    IF lo >= hi THEN lo
    ELSE LET mid == (lo + hi + 1) \div 2
         IN  IF mid * mid <= n THEN SqrtIter(n, mid, hi)
                               ELSE SqrtIter(n, lo, mid - 1)

Isqrt(n) == IF n <= 0 THEN 0 ELSE SqrtIter(n, 0, 46340)

(***************************************************************************)
(* Haversine distance (lines 76-87) in fixed point.  R = 6371 km makes one *)
(* unit of latitude (1e-4 degree) 11.1195 m.  cos is evaluated by its      *)
(* series in milliradians; the great-circle arc is evaluated as            *)
(* sqrt(dlat^2 + cos(lat1) cos(lat2) dlon^2), which is what the haversine  *)
(* expression reduces to for the small longitude differences of the        *)
(* coordinates used here.                                                  *)
(***************************************************************************)
ArcMetres(d) == 11 * d + (1195 * d) \div 10000

Cos1000(lat) ==
    LET x  == (Abs(lat) * 1745) \div 1000000
        x2 == (x * x) \div 1000
        x4 == (x2 * x2) \div 1000
        x6 == (x4 * x2) \div 1000
    IN  1000 - x2 \div 2 + x4 \div 24 - x6 \div 720

Max(a, b) == IF a >= b THEN a ELSE b
Min(a, b) == IF a <= b THEN a ELSE b

\* sqrt(a^2 + b^2) for a, b >= 0, within 32-bit integers
Hypot(a, b) ==
    LET hi == Max(a, b)
        lo == Min(a, b)
    IN  IF hi < 30000 THEN Isqrt(a * a + b * b)
        ELSE IF lo < 30000 THEN hi + (lo * lo) \div (2 * hi)
        ELSE 1000 * Isqrt((a \div 1000) * (a \div 1000) + (b \div 1000) * (b \div 1000))

haversine(lat1, lon1, lat2, lon2) ==
    LET dy == ArcMetres(Abs(lat2 - lat1))
        cc == Isqrt(Cos1000(lat1) * Cos1000(lat2))
        dx == (ArcMetres(Abs(lon2 - lon1)) * cc) \div 1000
    IN  Hypot(dy, dx)

\* round(x, 1) of a quantity given in metres (speed 60 km/h: 1 km per minute)
Round1(m) == (m + 50) \div 100

(***************************************************************************)
(* The number calculate_eta returns: Python int 0 or 1, or a float with    *)
(* one decimal.                                                            *)
(***************************************************************************)
IntEta(n) == [int |-> TRUE, tenths |-> 10 * n]
FloatEta(t) == [int |-> FALSE, tenths |-> t]

\* lines 89-96: eta_minutes from the distance, with the one-minute floor
eta_minutes(m) ==
    IF Round1(m) < 10 /\ m > 0 THEN IntEta(1) ELSE FloatEta(Round1(m))

\* f"{eta} mins" (lines 141, 167, 222)
MinsString(eta) ==
    IF eta.int
    THEN ToString(eta.tenths \div 10) \o " mins"
    ELSE ToString(eta.tenths \div 10) \o "." \o ToString(eta.tenths % 10) \o " mins"

\* f"{eta} mins" if eta > 0 else "N/A" (lines 141, 167)
EtaOrNA(eta) == IF eta.tenths > 0 THEN MinsString(eta) ELSE "N/A"

\* vehicle['eta'] = f"{eta} mins" (line 222)
DispatchEtaString(eta) == MinsString(eta)

(***************************************************************************)
(* Strings whose letter case matters (vehicle types, the type filter) are  *)
(* sequences of characters, so that str.upper() is computed.               *)
(***************************************************************************)
LowerLetters == <<"a","b","c","d","e","f","g","h","i","j","k","l","m",
                  "n","o","p","q","r","s","t","u","v","w","x","y","z">>
UpperLetters == <<"A","B","C","D","E","F","G","H","I","J","K","L","M",
                  "N","O","P","Q","R","S","T","U","V","W","X","Y","Z">>

UpperChar(c) ==
    IF \E i \in DOMAIN LowerLetters : LowerLetters[i] = c
    THEN UpperLetters[CHOOSE i \in DOMAIN LowerLetters : LowerLetters[i] = c]
    ELSE c

\* str.upper() (line 118)
upper(s) == [i \in DOMAIN s |-> UpperChar(s[i])]

AMBULANCE == <<"A","M","B","U","L","A","N","C","E">>
Ambulance == <<"A","m","b","u","l","a","n","c","e">>
ambulance == <<"a","m","b","u","l","a","n","c","e">>
FIRE == <<"F","I","R","E">>
POLICE == <<"P","O","L","I","C","E">>

(***************************************************************************)
(* Locations.  A request's location is a JSON object with lat/lng (or      *)
(* latitude/longitude: lines 68-71 read either spelling), or is missing.   *)
(***************************************************************************)
Loc(lat, lng) == [present |-> TRUE, lat |-> lat, lng |-> lng]
NoLocation == [present |-> FALSE, lat |-> None, lng |-> None]

\* the seeded reference map (lines 14-20)
SeededPhoneLocations ==
    [ph \in {"9876543210", "9876543211", "9876543212", "9876543213", "9876543214"} |->
        CASE ph = "9876543210" -> [lat |-> 133409, lng |-> 771025, address |-> "Tumkur City Center"]
          [] ph = "9876543211" -> [lat |-> 133415, lng |-> 771030, address |-> "Tumkur Bus Stand"]
          [] ph = "9876543212" -> [lat |-> 133420, lng |-> 771035, address |-> "Tumkur Railway Station"]
          [] ph = "9876543213" -> [lat |-> 133425, lng |-> 771040, address |-> "Tumkur Medical College"]
          [] ph = "9876543214" -> [lat |-> 133430, lng |-> 771045, address |-> "Tumkur Police Station"]]

(***************************************************************************)
(* The vehicle catalogs data/vehicles.json may hold (the file is read at   *)
(* line 25-27; its content is an input).                                   *)
(***************************************************************************)
CatalogEntry(id, type, lat, lng) ==
    [id |-> id, type |-> type, location |-> [latitude |-> lat, longitude |-> lng]]

\* two vehicles at distinct, well-formed coordinates
CatalogPlain ==
    << CatalogEntry("v1", AMBULANCE, Num(133409), Num(771025)),
       CatalogEntry("v2", FIRE, Num(133500), Num(771100)) >>

\* two vehicles parked at the same coordinates, one typed in mixed case
CatalogShared ==
    << CatalogEntry("v1", Ambulance, Num(133415), Num(771030)),
       CatalogEntry("v2", AMBULANCE, Num(133415), Num(771030)) >>

\* the first vehicle's latitude is a non-numeric string
CatalogBadString ==
    << CatalogEntry("v1", AMBULANCE, Str, Num(771025)),
       CatalogEntry("v2", FIRE, Num(133500), Num(771100)) >>

Catalogs == {CatalogPlain, CatalogShared, CatalogBadString}

(***************************************************************************)
(* Request inputs.                                                         *)
(***************************************************************************)
\* the server's request threads; a thread keeps nothing between two requests,
\* so a request is given to the first idle thread
Threads == <<"t1", "t2">>
ThreadIds == DOMAIN Threads

\* a seeded phone and an unknown phone
PhoneInputs == {"9876543210", "0000000000"}

\* two registry ids, an unknown id and a missing id
VehicleIdInputs == {"v1", "v2", "v9", ""}

\* near (floored to 1 minute), zero latitude, non-numeric, out of range,
\* and missing
LocationInputs ==
    { Loc(Num(133415), Num(771030)),
      Loc(Num(0), Num(771025)),
      Loc(Str, Num(771025)),
      Loc(Num(900001), Num(771025)),
      NoLocation }

VehicleIdsInputs == { {}, {"v1", "v2"}, {"v2", "v9"} }

TypeInputs == { <<>>, ambulance, POLICE }

\* cap on the number of requests served in one behaviour
MaxRequests == 3

\* arguments of the direct calls of processor.update_vehicle_location
TrackedVehicleInputs == {"v1", "v9"}
TrackedLocationInputs == { Loc(Num(133409), Num(771025)), Loc(Num(133500), Num(771100)) }

VARIABLES
    vehicles,           \* processor.vehicles: the registry, in load order
    vehicle_locations,  \* processor.vehicle_locations: the live vehicle map
    phone_locations,    \* processor.phone_locations: the seeded reference map
    phone_to_location,  \* processor.phone_to_location: the live phone map
    pc,                 \* per thread: where its handler stands
    local,              \* per thread: the handler's arguments and locals
    resp,               \* the last response returned, and the thread that returned it
    requests            \* number of requests accepted so far

vars == <<vehicles, vehicle_locations, phone_locations, phone_to_location, pc, local, resp, requests>>

\* lines 29-33: every loaded vehicle gets eta "N/A", available True, status AVAILABLE
\* (distance -1: the key is absent until calculate_eta stores it)
load_vehicles(catalog) ==
    [i \in DOMAIN catalog |->
        [id |-> catalog[i].id, type |-> catalog[i].type, location |-> catalog[i].location,
         eta |-> "N/A", available |-> TRUE, status |-> "AVAILABLE", distance |-> -1]]

NoLocals ==
    [vehicle_id |-> "", phone |-> "", idx |-> 0, emergency_location |-> NoLocation,
     address |-> "", vehicle_ids |-> {}, eta |-> IntEta(0), etas |-> <<>>]

NoResponse == [thread |-> 0, op |-> "none", code |-> 0, args |-> NoLocals, body |-> "none"]

Init ==
    /\ \E catalog \in Catalogs : vehicles = load_vehicles(catalog)
    /\ vehicle_locations = [id \in {} |-> NoLocation]
    /\ phone_locations = SeededPhoneLocations
    /\ phone_to_location = [ph \in {} |-> NoLocation]
    /\ pc = [t \in ThreadIds |-> "idle"]
    /\ local = [t \in ThreadIds |-> NoLocals]
    /\ resp = NoResponse
    /\ requests = 0

\* no handler is in progress: resp is the response of the last request and
\* the registry is as that request left it
AllReturned == \A t \in ThreadIds : pc[t] = "idle"

\* a thread takes the next request
Accept(t) ==
    /\ pc[t] = "idle"
    /\ \A u \in ThreadIds : u < t => pc[u] # "idle"
    /\ requests < MaxRequests
    /\ requests' = requests + 1

\* the handler of thread t returns (or raises into) a response
Respond(t, op, code, args, body) ==
    /\ resp' = [thread |-> t, op |-> op, code |-> code, args |-> args, body |-> body]
    /\ pc' = [pc EXCEPT ![t] = "idle"]
    /\ local' = [local EXCEPT ![t] = NoLocals]

(***************************************************************************)
(* RealTimeProcessor                                                       *)
(***************************************************************************)
\* lines 38-39
update_vehicle_location(vehicle_id, location) ==
    [id \in DOMAIN vehicle_locations \cup {vehicle_id} |->
        IF id = vehicle_id THEN location ELSE vehicle_locations[id]]

\* lines 44-45: dict.get, None when absent
get_vehicle_location(vehicle_id) ==
    IF vehicle_id \in DOMAIN vehicle_locations THEN vehicle_locations[vehicle_id] ELSE NoLocation

\* lines 41-42 with the map replaced by the one entry
update_phone_location_alone(phone, location) ==
    [ph \in {phone} |-> location]

\* lines 41-42 keeping the entry a phone already has
update_phone_location_first_kept(phone, location) ==
    [ph \in DOMAIN phone_to_location \cup {phone} |->
        IF ph \in DOMAIN phone_to_location THEN phone_to_location[ph] ELSE location]

\* lines 41-42
update_phone_location(phone, location) ==
    [ph \in DOMAIN phone_to_location \cup {phone} |->
        IF ph = phone THEN location ELSE phone_to_location[ph]]

\* lines 47-48: dict.get, None when absent
get_phone_location(phone) ==
    IF phone \in DOMAIN phone_to_location THEN phone_to_location[phone] ELSE NoLocation

\* lines 50-61 with a fallback to the live map
get_location_from_phone_or_live(phone_number) ==
    IF phone_number \in DOMAIN phone_locations
    THEN [found |-> TRUE,
          location |-> Loc(Num(phone_locations[phone_number].lat),
                           Num(phone_locations[phone_number].lng)),
          address |-> phone_locations[phone_number].address]
    ELSE IF phone_number \in DOMAIN phone_to_location
    THEN [found |-> TRUE, location |-> phone_to_location[phone_number], address |-> ""]
    ELSE [found |-> FALSE, location |-> NoLocation, address |-> ""]

\* lines 50-61
get_location_from_phone(phone_number) ==
    IF phone_number \in DOMAIN phone_locations
    THEN [found |-> TRUE,
          location |-> Loc(Num(phone_locations[phone_number].lat),
                           Num(phone_locations[phone_number].lng)),
          address |-> phone_locations[phone_number].address]
    ELSE [found |-> FALSE, location |-> NoLocation, address |-> ""]

\* line 99: the first registry vehicle whose coordinates equal the given ones (0: none)
FirstAt(vs, lat, lng) ==
    IF \E i \in DOMAIN vs : vs[i].location.latitude = lat /\ vs[i].location.longitude = lng
    THEN CHOOSE i \in DOMAIN vs :
            /\ vs[i].location.latitude = lat /\ vs[i].location.longitude = lng
            /\ \A j \in DOMAIN vs :
                  (vs[j].location.latitude = lat /\ vs[j].location.longitude = lng) => i <= j
    ELSE 0

\* lines 98-101: store the rounded distance in the vehicle found by coordinates
StoreDistance(vs, lat, lng, m) ==
    LET i == FirstAt(vs, lat, lng)
    IN  IF i = 0 THEN vs ELSE [vs EXCEPT ![i].distance = Round1(m)]

\* lines 63-103: the returned number, the registry after the distance store,
\* or raised when float() fails
calculate_eta(vs, vehicle_location, emergency_location) ==
    LET vehicle_lat == vehicle_location.latitude
        vehicle_lng == vehicle_location.longitude
        emergency_lat == emergency_location.lat
        emergency_lng == emergency_location.lng
    IN  IF ~emergency_location.present
        THEN [raised |-> FALSE, eta |-> IntEta(0), vehicles |-> vs]
        ELSE IF ~(Truthy(vehicle_lat) /\ Truthy(vehicle_lng)
                    /\ Truthy(emergency_lat) /\ Truthy(emergency_lng))
        THEN [raised |-> FALSE, eta |-> IntEta(0), vehicles |-> vs]
        ELSE IF FloatRaises(vehicle_lat) \/ FloatRaises(vehicle_lng)
                    \/ FloatRaises(emergency_lat) \/ FloatRaises(emergency_lng)
        THEN [raised |-> TRUE, eta |-> IntEta(0), vehicles |-> vs]
        ELSE LET distance == haversine(vehicle_lat.v, vehicle_lng.v,
                                       emergency_lat.v, emergency_lng.v)
             IN  [raised |-> FALSE, eta |-> eta_minutes(distance),
                  vehicles |-> StoreDistance(vs, vehicle_lat, vehicle_lng, distance)]

\* lines 208: next(v for v in processor.vehicles if v['id'] == vehicle_id), 0 for None
FindVehicle(vehicle_id) ==
    IF \E i \in DOMAIN vehicles : vehicles[i].id = vehicle_id
    THEN CHOOSE i \in DOMAIN vehicles :
            /\ vehicles[i].id = vehicle_id
            /\ \A j \in DOMAIN vehicles : vehicles[j].id = vehicle_id => i <= j
    ELSE 0

(***************************************************************************)
(* POST /api/location (lines 184-193)                                      *)
(***************************************************************************)
update_location(t) ==
    /\ Accept(t)
    /\ \E phone \in PhoneInputs, location \in LocationInputs :
        LET args == [NoLocals EXCEPT !.phone = phone, !.emergency_location = location]
        IN  IF location.present
            THEN /\ phone_to_location' = update_phone_location(phone, location)
                 /\ Respond(t, "update_location", 200, args, "success")
            ELSE /\ UNCHANGED phone_to_location
                 /\ Respond(t, "update_location", 400, args, "Invalid data")
    /\ UNCHANGED <<vehicles, vehicle_locations, phone_locations>>

(***************************************************************************)
(* POST /api/dispatch (lines 195-228)                                      *)
(***************************************************************************)
\* lines 197-215 with the vehicle looked up before the location
dispatch_vehicle_vehicle_first(t) ==
    /\ Accept(t)
    /\ \E vehicle_id \in VehicleIdInputs, phone \in PhoneInputs :
        LET args == [NoLocals EXCEPT !.vehicle_id = vehicle_id, !.phone = phone]
            emergency_location == get_phone_location(phone)
            idx == FindVehicle(vehicle_id)
        IN  IF vehicle_id = ""
            THEN Respond(t, "dispatch", 400, args, "Missing vehicle_id or phone")
            ELSE IF idx = 0
            THEN Respond(t, "dispatch", 404, args, "Vehicle not found")
            ELSE IF ~emergency_location.present
            THEN Respond(t, "dispatch", 404, args, "Emergency location not found")
            ELSE /\ pc' = [pc EXCEPT ![t] = "dispatch_eta"]
                 /\ local' = [local EXCEPT ![t] =
                        [args EXCEPT !.idx = idx, !.emergency_location = emergency_location]]
                 /\ UNCHANGED resp
    /\ UNCHANGED <<vehicles, vehicle_locations, phone_locations, phone_to_location>>

\* lines 197-215 with a vehicle that is not available refused
dispatch_vehicle_conflict(t) ==
    /\ Accept(t)
    /\ \E vehicle_id \in VehicleIdInputs, phone \in PhoneInputs :
        LET args == [NoLocals EXCEPT !.vehicle_id = vehicle_id, !.phone = phone]
            emergency_location == get_phone_location(phone)
            idx == FindVehicle(vehicle_id)
        IN  IF vehicle_id = ""
            THEN Respond(t, "dispatch", 400, args, "Missing vehicle_id or phone")
            ELSE IF ~emergency_location.present
            THEN Respond(t, "dispatch", 404, args, "Emergency location not found")
            ELSE IF idx = 0
            THEN Respond(t, "dispatch", 404, args, "Vehicle not found")
            ELSE IF ~vehicles[idx].available
            THEN Respond(t, "dispatch", 409, args, "Vehicle not available")
            ELSE /\ pc' = [pc EXCEPT ![t] = "dispatch_eta"]
                 /\ local' = [local EXCEPT ![t] =
                        [args EXCEPT !.idx = idx, !.emergency_location = emergency_location]]
                 /\ UNCHANGED resp
    /\ UNCHANGED <<vehicles, vehicle_locations, phone_locations, phone_to_location>>

\* lines 197-215: the lookups
dispatch_vehicle(t) ==
    /\ Accept(t)
    /\ \E vehicle_id \in VehicleIdInputs, phone \in PhoneInputs :
        LET args == [NoLocals EXCEPT !.vehicle_id = vehicle_id, !.phone = phone]
            emergency_location == get_phone_location(phone)
            idx == FindVehicle(vehicle_id)
        IN  IF vehicle_id = ""
            THEN Respond(t, "dispatch", 400, args, "Missing vehicle_id or phone")
            ELSE IF ~emergency_location.present
            THEN Respond(t, "dispatch", 404, args, "Emergency location not found")
            ELSE IF idx = 0
            THEN Respond(t, "dispatch", 404, args, "Vehicle not found")
            ELSE /\ pc' = [pc EXCEPT ![t] = "dispatch_eta"]
                 /\ local' = [local EXCEPT ![t] =
                        [args EXCEPT !.idx = idx, !.emergency_location = emergency_location]]
                 /\ UNCHANGED resp
    /\ UNCHANGED <<vehicles, vehicle_locations, phone_locations, phone_to_location>>

\* line 217; an exception of calculate_eta leaves the handler as a 500
dispatch_vehicle_eta(t) ==
    /\ pc[t] = "dispatch_eta"
    /\ LET r == calculate_eta(vehicles, vehicles[local[t].idx].location,
                              local[t].emergency_location)
       IN  IF r.raised
           THEN /\ Respond(t, "dispatch", 500, local[t], "ValueError")
                /\ UNCHANGED vehicles
           ELSE /\ vehicles' = r.vehicles
                /\ local' = [local EXCEPT ![t].eta = r.eta]
                /\ pc' = [pc EXCEPT ![t] = "dispatch_available"]
                /\ UNCHANGED resp
    /\ UNCHANGED <<vehicle_locations, phone_locations, phone_to_location, requests>>

\* line 220 with the flag left True
dispatch_vehicle_available_kept(t) ==
    /\ pc[t] = "dispatch_available"
    /\ vehicles' = [vehicles EXCEPT ![local[t].idx].available = TRUE]
    /\ pc' = [pc EXCEPT ![t] = "dispatch_status"]
    /\ UNCHANGED <<vehicle_locations, phone_locations, phone_to_location, local, resp, requests>>

\* line 220
dispatch_vehicle_available(t) ==
    /\ pc[t] = "dispatch_available"
    /\ vehicles' = [vehicles EXCEPT ![local[t].idx].available = FALSE]
    /\ pc' = [pc EXCEPT ![t] = "dispatch_status"]
    /\ UNCHANGED <<vehicle_locations, phone_locations, phone_to_location, local, resp, requests>>

\* line 221
dispatch_vehicle_status(t) ==
    /\ pc[t] = "dispatch_status"
    /\ vehicles' = [vehicles EXCEPT ![local[t].idx].status = "EN_ROUTE"]
    /\ pc' = [pc EXCEPT ![t] = "dispatch_seteta"]
    /\ UNCHANGED <<vehicle_locations, phone_locations, phone_to_location, local, resp, requests>>

\* line 222
dispatch_vehicle_seteta(t) ==
    /\ pc[t] = "dispatch_seteta"
    /\ vehicles' = [vehicles EXCEPT ![local[t].idx].eta = DispatchEtaString(local[t].eta)]
    /\ pc' = [pc EXCEPT ![t] = "dispatch_return"]
    /\ UNCHANGED <<vehicle_locations, phone_locations, phone_to_location, local, resp, requests>>

\* lines 224-228: the response serialises the vehicle as it is now
dispatch_vehicle_return(t) ==
    /\ pc[t] = "dispatch_return"
    /\ Respond(t, "dispatch", 200, local[t],
               [eta |-> local[t].eta, vehicle |-> vehicles[local[t].idx]])
    /\ UNCHANGED <<vehicles, vehicle_locations, phone_locations, phone_to_location, requests>>

(***************************************************************************)
(* GET /api/vehicles (lines 115-128)                                       *)
(***************************************************************************)
\* lines 122-125: the list comprehension
FilterVehicles(vs, service_type) ==
    SelectSeq(vs, LAMBDA vehicle : vehicle.type = service_type /\ vehicle.available)

get_vehicles(t) ==
    /\ Accept(t)
    /\ \E type \in TypeInputs :
        LET service_type == upper(type)
        IN  IF service_type # <<>>
            THEN Respond(t, "get_vehicles", 200, NoLocals, [type |-> type,
                         vehicles |-> FilterVehicles(vehicles, service_type)])
            ELSE Respond(t, "get_vehicles", 200, NoLocals, [type |-> type,
                         vehicles |-> vehicles])
    /\ UNCHANGED <<vehicles, vehicle_locations, phone_locations, phone_to_location>>

(***************************************************************************)
(* GET /api/location/<phone_number> (lines 130-143)                        *)
(***************************************************************************)
\* lines 132-133, 143: the lookup
get_location(t) ==
    /\ Accept(t)
    /\ \E phone_number \in PhoneInputs :
        LET args == [NoLocals EXCEPT !.phone = phone_number]
            location_data == get_location_from_phone(phone_number)
        IN  IF location_data.found
            THEN /\ pc' = [pc EXCEPT ![t] = "location_eta"]
                 /\ local' = [local EXCEPT ![t] =
                        [args EXCEPT !.idx = 1,
                                     !.emergency_location = location_data.location,
                                     !.address = location_data.address]]
                 /\ UNCHANGED resp
            ELSE Respond(t, "get_location", 404, args, "Location not found")
    /\ UNCHANGED <<vehicles, vehicle_locations, phone_locations, phone_to_location>>

\* lines 135-140: the next vehicle of the loop, its ETA computed
get_location_eta(t) ==
    /\ pc[t] = "location_eta"
    /\ local[t].idx <= Len(vehicles)
    /\ LET r == calculate_eta(vehicles, vehicles[local[t].idx].location,
                              local[t].emergency_location)
       IN  IF r.raised
           THEN /\ Respond(t, "get_location", 500, local[t], "ValueError")
                /\ UNCHANGED vehicles
           ELSE /\ vehicles' = r.vehicles
                /\ local' = [local EXCEPT ![t].eta = r.eta]
                /\ pc' = [pc EXCEPT ![t] = "location_seteta"]
                /\ UNCHANGED resp
    /\ UNCHANGED <<vehicle_locations, phone_locations, phone_to_location, requests>>

\* line 141 with the refresh also putting the vehicle back in the pool
get_location_seteta_reset(t) ==
    /\ pc[t] = "location_seteta"
    /\ vehicles' = [vehicles EXCEPT ![local[t].idx].eta = EtaOrNA(local[t].eta),
                                    ![local[t].idx].available = TRUE,
                                    ![local[t].idx].status = "AVAILABLE"]
    /\ local' = [local EXCEPT ![t].idx = local[t].idx + 1]
    /\ pc' = [pc EXCEPT ![t] = "location_eta"]
    /\ UNCHANGED <<vehicle_locations, phone_locations, phone_to_location, resp, requests>>

\* line 141 with the refresh skipping the vehicles that are not available
get_location_seteta_available_only(t) ==
    /\ pc[t] = "location_seteta"
    /\ vehicles' = IF vehicles[local[t].idx].available
                   THEN [vehicles EXCEPT ![local[t].idx].eta = EtaOrNA(local[t].eta)]
                   ELSE vehicles
    /\ local' = [local EXCEPT ![t].idx = local[t].idx + 1]
    /\ pc' = [pc EXCEPT ![t] = "location_eta"]
    /\ UNCHANGED <<vehicle_locations, phone_locations, phone_to_location, resp, requests>>

\* line 141
get_location_seteta(t) ==
    /\ pc[t] = "location_seteta"
    /\ vehicles' = [vehicles EXCEPT ![local[t].idx].eta = EtaOrNA(local[t].eta)]
    /\ local' = [local EXCEPT ![t].idx = local[t].idx + 1]
    /\ pc' = [pc EXCEPT ![t] = "location_eta"]
    /\ UNCHANGED <<vehicle_locations, phone_locations, phone_to_location, resp, requests>>

\* line 142: the loop is over
get_location_return(t) ==
    /\ pc[t] = "location_eta"
    /\ local[t].idx > Len(vehicles)
    /\ Respond(t, "get_location", 200, local[t],
               [location |-> local[t].emergency_location, address |-> local[t].address])
    /\ UNCHANGED <<vehicles, vehicle_locations, phone_locations, phone_to_location, requests>>

(***************************************************************************)
(* POST /api/calculate-etas (lines 145-182)                                *)
(***************************************************************************)
\* line 159 without the test of line 160: every vehicle is taken
NextRequested_unfiltered(vs, vehicle_ids, i) ==
    IF i <= Len(vs) THEN i ELSE Len(vs) + 1

\* lines 159-160: the next vehicle at or after index i whose id is requested
NextRequested(vs, vehicle_ids, i) ==
    IF \E j \in i..Len(vs) : vs[j].id \in vehicle_ids
    THEN CHOOSE j \in i..Len(vs) :
            /\ vs[j].id \in vehicle_ids
            /\ \A k \in i..Len(vs) : vs[k].id \in vehicle_ids => j <= k
    ELSE Len(vs) + 1

\* lines 148-158 with line 154 testing "and" for "or"
calculate_etas_both_missing(t) ==
    /\ Accept(t)
    /\ \E emergency_location \in LocationInputs, vehicle_ids \in VehicleIdsInputs :
        LET args == [NoLocals EXCEPT !.emergency_location = emergency_location,
                                     !.vehicle_ids = vehicle_ids]
        IN  IF ~emergency_location.present /\ vehicle_ids = {}
            THEN Respond(t, "calculate_etas", 400, args, "Missing location or vehicle IDs")
            ELSE /\ pc' = [pc EXCEPT ![t] = "etas_eta"]
                 /\ local' = [local EXCEPT ![t] =
                        [args EXCEPT !.idx = NextRequested(vehicles, vehicle_ids, 1)]]
                 /\ UNCHANGED resp
    /\ UNCHANGED <<vehicles, vehicle_locations, phone_locations, phone_to_location>>

\* lines 148-158
calculate_etas(t) ==
    /\ Accept(t)
    /\ \E emergency_location \in LocationInputs, vehicle_ids \in VehicleIdsInputs :
        LET args == [NoLocals EXCEPT !.emergency_location = emergency_location,
                                     !.vehicle_ids = vehicle_ids]
        IN  IF ~emergency_location.present \/ vehicle_ids = {}
            THEN Respond(t, "calculate_etas", 400, args, "Missing location or vehicle IDs")
            ELSE /\ pc' = [pc EXCEPT ![t] = "etas_eta"]
                 /\ local' = [local EXCEPT ![t] =
                        [args EXCEPT !.idx = NextRequested(vehicles, vehicle_ids, 1)]]
                 /\ UNCHANGED resp
    /\ UNCHANGED <<vehicles, vehicle_locations, phone_locations, phone_to_location>>

\* lines 159-166; an exception is caught at line 180 and answered with a 500
calculate_etas_eta(t) ==
    /\ pc[t] = "etas_eta"
    /\ local[t].idx <= Len(vehicles)
    /\ LET r == calculate_eta(vehicles, vehicles[local[t].idx].location,
                              local[t].emergency_location)
       IN  IF r.raised
           THEN /\ Respond(t, "calculate_etas", 500, local[t], "ValueError")
                /\ UNCHANGED vehicles
           ELSE /\ vehicles' = r.vehicles
                /\ local' = [local EXCEPT ![t].eta = r.eta]
                /\ pc' = [pc EXCEPT ![t] = "etas_seteta"]
                /\ UNCHANGED resp
    /\ UNCHANGED <<vehicle_locations, phone_locations, phone_to_location, requests>>

\* line 167
calculate_etas_seteta(t) ==
    /\ pc[t] = "etas_seteta"
    /\ vehicles' = [vehicles EXCEPT ![local[t].idx].eta = EtaOrNA(local[t].eta)]
    /\ pc' = [pc EXCEPT ![t] = "etas_append"]
    /\ UNCHANGED <<vehicle_locations, phone_locations, phone_to_location, local, resp, requests>>

\* lines 168-176: the summary reads the vehicle as it is now
calculate_etas_append(t) ==
    /\ pc[t] = "etas_append"
    /\ LET vehicle == vehicles[local[t].idx]
           summary == [vehicleId |-> vehicle.id, vehicleType |-> vehicle.type,
                       etaMinutes |-> local[t].eta, status |-> vehicle.status,
                       available |-> vehicle.available]
       IN  local' = [local EXCEPT ![t].etas = Append(local[t].etas, summary),
                                  ![t].idx = NextRequested(vehicles, local[t].vehicle_ids,
                                                           local[t].idx + 1)]
    /\ pc' = [pc EXCEPT ![t] = "etas_eta"]
    /\ UNCHANGED <<vehicles, vehicle_locations, phone_locations, phone_to_location, resp, requests>>

\* lines 178-179
calculate_etas_return(t) ==
    /\ pc[t] = "etas_eta"
    /\ local[t].idx > Len(vehicles)
    /\ Respond(t, "calculate_etas", 200, local[t], [etas |-> local[t].etas])
    /\ UNCHANGED <<vehicles, vehicle_locations, phone_locations, phone_to_location, requests>>

(***************************************************************************)
(* One step of the handler running on thread t.                            *)
(***************************************************************************)
Handler(t) ==
    \/ update_location(t)
    \/ dispatch_vehicle(t)
    \/ dispatch_vehicle_eta(t)
    \/ dispatch_vehicle_available(t)
    \/ dispatch_vehicle_status(t)
    \/ dispatch_vehicle_seteta(t)
    \/ dispatch_vehicle_return(t)
    \/ get_vehicles(t)
    \/ get_location(t)
    \/ get_location_eta(t)
    \/ get_location_seteta(t)
    \/ get_location_return(t)
    \/ calculate_etas(t)
    \/ calculate_etas_eta(t)
    \/ calculate_etas_seteta(t)
    \/ calculate_etas_append(t)
    \/ calculate_etas_return(t)

\* the threaded server (line 231): the handlers' steps interleave
Next == \E t \in ThreadIds : Handler(t)

Spec == Init /\ [][Next]_vars

\* requests served one at a time
NextSeq == Handler(1)

SpecSeq == Init /\ [][NextSeq]_vars

\* location reports and dispatches only, on both threads
DispatchHandler(t) ==
    \/ update_location(t)
    \/ dispatch_vehicle(t)
    \/ dispatch_vehicle_eta(t)
    \/ dispatch_vehicle_available(t)
    \/ dispatch_vehicle_status(t)
    \/ dispatch_vehicle_seteta(t)
    \/ dispatch_vehicle_return(t)

NextDispatch == \E t \in ThreadIds : DispatchHandler(t)

SpecDispatch == Init /\ [][NextDispatch]_vars

\* lines 38-39 with the report also moving the registry vehicle
track_vehicle_moving ==
    /\ AllReturned
    /\ requests < MaxRequests
    /\ requests' = requests + 1
    /\ \E vehicle_id \in TrackedVehicleInputs, location \in TrackedLocationInputs :
        /\ vehicle_locations' = update_vehicle_location(vehicle_id, location)
        /\ vehicles' = [i \in DOMAIN vehicles |->
              IF vehicles[i].id = vehicle_id
              THEN [vehicles[i] EXCEPT !.location =
                        [latitude |-> location.lat, longitude |-> location.lng]]
              ELSE vehicles[i]]
    /\ UNCHANGED <<phone_locations, phone_to_location, pc, local, resp>>

\* lines 38-39 called on the module's processor (line 105) between requests;
\* no route of the application calls it
track_vehicle ==
    /\ AllReturned
    /\ requests < MaxRequests
    /\ requests' = requests + 1
    /\ \E vehicle_id \in TrackedVehicleInputs, location \in TrackedLocationInputs :
        vehicle_locations' = update_vehicle_location(vehicle_id, location)
    /\ UNCHANGED <<vehicles, phone_locations, phone_to_location, pc, local, resp>>

\* requests served one at a time, with position reports for vehicles in between
NextProcessor == Handler(1) \/ track_vehicle

SpecProcessor == Init /\ [][NextProcessor]_vars

(***************************************************************************)
(* Properties                                                              *)
(***************************************************************************)
DispatchPcs == {"dispatch_eta", "dispatch_available", "dispatch_status",
                "dispatch_seteta", "dispatch_return"}

\* C1: a dispatch of a registry vehicle to a phone of the seeded reference
\* map succeeds, with or without an earlier location report, and leaves the
\* vehicle EN_ROUTE and unavailable.
C1_DispatchOfSeededPhoneSucceeds ==
    (/\ AllReturned
     /\ resp.op = "dispatch"
     /\ resp.args.phone \in DOMAIN phone_locations
     /\ FindVehicle(resp.args.vehicle_id) # 0)
    => /\ resp.code = 200
       /\ vehicles[FindVehicle(resp.args.vehicle_id)].status = "EN_ROUTE"
       /\ ~vehicles[FindVehicle(resp.args.vehicle_id)].available

\* C2: with dispatches interleaved write by write, no vehicle is ever
\* available and EN_ROUTE at once; a vehicle's status changes only from
\* AVAILABLE to EN_ROUTE and never back, so it changes once however many
\* dispatches write it; and when a dispatch has returned success its vehicle
\* is EN_ROUTE and unavailable.
C2_NeverAvailableEnRoute ==
    \A i \in DOMAIN vehicles : ~(vehicles[i].available /\ vehicles[i].status = "EN_ROUTE")

C2_DispatchedAtReturn ==
    (resp.op = "dispatch" /\ resp.code = 200)
    => /\ vehicles[resp.args.idx].status = "EN_ROUTE"
       /\ ~vehicles[resp.args.idx].available

C2_StatusChangesOnce ==
    \A i \in DOMAIN vehicles :
        vehicles'[i].status # vehicles[i].status
        => vehicles[i].status = "AVAILABLE" /\ vehicles'[i].status = "EN_ROUTE"

C2_ConcurrentDispatchOneTransition ==
    /\ [](C2_NeverAvailableEnRoute /\ C2_DispatchedAtReturn)
    /\ [][C2_StatusChangesOnce]_vars

\* two dispatches of the same vehicle, both accepted while it was AVAILABLE,
\* have both written their fields
C2_BothDispatchesWrote ==
    /\ pc[1] = "dispatch_return" /\ pc[2] = "dispatch_return"
    /\ local[1].idx = local[2].idx
    /\ requests = 3
    /\ vehicles[local[1].idx].status = "EN_ROUTE"

\* C3: available == (status == AVAILABLE) for every vehicle in every state
\* of the registry, the states between two writes of a handler included.
C3_AvailableIffStatusAvailable ==
    \A i \in DOMAIN vehicles :
        vehicles[i].available = (vehicles[i].status = "AVAILABLE")

\* C4: every vehicle is loaded AVAILABLE; status and available change only
\* in the two writes of a dispatch that passed its lookups, for the vehicle
\* it dispatches; an EN_ROUTE vehicle stays EN_ROUTE and unavailable.
C4_LoadedAvailable ==
    \A i \in DOMAIN vehicles : vehicles[i].status = "AVAILABLE" /\ vehicles[i].available

C4_OnlyDispatchChanges ==
    \A i \in DOMAIN vehicles :
        /\ (vehicles'[i].status # vehicles[i].status
                \/ vehicles'[i].available # vehicles[i].available)
           => \E t \in ThreadIds :
                /\ pc[t] \in {"dispatch_available", "dispatch_status"}
                /\ pc'[t] # pc[t]
                /\ local[t].idx = i
        /\ vehicles[i].status = "EN_ROUTE"
           => vehicles'[i].status = "EN_ROUTE" /\ ~vehicles'[i].available

C4_OneWayStatus == C4_LoadedAvailable /\ [][C4_OnlyDispatchChanges]_vars

\* a location lookup has refreshed the ETAs after a vehicle went EN_ROUTE
C4_OperationAfterDispatch ==
    /\ AllReturned
    /\ resp.op = "get_location" /\ resp.code = 200
    /\ \E i \in DOMAIN vehicles : vehicles[i].status = "EN_ROUTE"

\* C5: the vehicle in a successful dispatch response is EN_ROUTE and
\* unavailable and its eta string renders the eta number of that response
\* (as "N/A" or as "<eta> mins" when the number is 0).
C5_DispatchSnapshotConsistent ==
    (resp.op = "dispatch" /\ resp.code = 200)
    => /\ resp.body.vehicle.status = "EN_ROUTE"
       /\ ~resp.body.vehicle.available
       /\ resp.body.vehicle.eta \in {EtaOrNA(resp.body.eta), MinsString(resp.body.eta)}

\* C6: no vehicle's eta is ever the rendering of zero minutes: a computed
\* ETA of 0 is stored as "N/A".
C6_EtaNeverZeroMins ==
    \A i \in DOMAIN vehicles :
        vehicles[i].eta \notin {MinsString(IntEta(0)), MinsString(FloatEta(0))}

\* C7: a batch is never aborted by a malformed coordinate: calculate_etas
\* and get_location return no error once their parameters are accepted, and
\* calculate_etas returns a summary for every requested registry vehicle.
C7_BatchNeverAborts ==
    /\ resp.op \in {"calculate_etas", "get_location"} => resp.code # 500
    /\ (resp.op = "calculate_etas" /\ resp.code \notin {400})
       => /\ resp.code = 200
          /\ {resp.body.etas[k].vehicleId : k \in DOMAIN resp.body.etas}
                = {vehicles[i].id : i \in DOMAIN vehicles} \cap resp.args.vehicle_ids

\* C8: a filtered listing is the registry vehicles, in registry order, whose
\* type equals the filter ignoring the case of both and that are available.
C8_FilterIgnoresCase ==
    (AllReturned /\ resp.op = "get_vehicles" /\ resp.body.type # <<>>)
    => resp.body.vehicles =
         SelectSeq(vehicles, LAMBDA vehicle :
                      upper(vehicle.type) = upper(resp.body.type) /\ vehicle.available)

\* C9: when get_location has returned the location of a seeded phone, every
\* vehicle's eta is the rendering of the ETA from that vehicle's location to
\* the phone's location, and no step of get_location changes a status or an
\* available flag.
LocationPcs == {"location_eta", "location_seteta"}

C9_EveryEtaRefreshed ==
    (AllReturned /\ resp.op = "get_location" /\ resp.code = 200)
    => \A i \in DOMAIN vehicles :
          vehicles[i].eta =
            EtaOrNA(calculate_eta(vehicles, vehicles[i].location,
                                  Loc(Num(phone_locations[resp.args.phone].lat),
                                      Num(phone_locations[resp.args.phone].lng))).eta)

C9_StatusUntouched ==
    (\E t \in ThreadIds : pc[t] \in LocationPcs \/ pc'[t] \in LocationPcs)
    => \A i \in DOMAIN vehicles :
          /\ vehicles'[i].status = vehicles[i].status
          /\ vehicles'[i].available = vehicles[i].available

C9_LocationRefreshesEveryEta == []C9_EveryEtaRefreshed /\ [][C9_StatusUntouched]_vars

\* the refresh has covered a vehicle that is EN_ROUTE
C9_RefreshedEnRoute ==
    /\ AllReturned
    /\ resp.op = "get_location" /\ resp.code = 200
    /\ \E i \in DOMAIN vehicles :
          vehicles[i].status = "EN_ROUTE" /\ vehicles[i].eta = "N/A"

\* C10: get_location of a phone outside the reference map returns 404
\* without entering its loop, and the step changes no vehicle, whatever the
\* live map holds for the phone.
C10_UnknownPhoneNotFound ==
    /\ (resp.op = "get_location" /\ resp.args.phone \notin DOMAIN phone_locations)
       => resp.code = 404
    /\ \A t \in ThreadIds :
          pc[t] \in LocationPcs => local[t].phone \in DOMAIN phone_locations

C10_NotFoundChangesNothing ==
    (requests' # requests /\ resp'.op = "get_location" /\ resp'.code = 404
        /\ \A t \in ThreadIds : pc'[t] = "idle")
    => vehicles' = vehicles

C10_UnknownPhoneLeavesVehicles ==
    []C10_UnknownPhoneNotFound /\ [][C10_NotFoundChangesNothing]_vars

\* the unknown phone had a live location when it was looked up
C10_NotFoundDespiteLiveEntry ==
    /\ AllReturned
    /\ resp.op = "get_location" /\ resp.code = 404
    /\ resp.args.phone \in DOMAIN phone_to_location

\* C11: a dispatch given a vehicle id and a phone answers "Emergency location
\* not found" when its lookup finds no location for the phone, whatever the
\* vehicle id, and "Vehicle not found" when the phone resolves and the vehicle
\* id is not in the registry; the failing call leaves every vehicle and both
\* phone maps as they were.
C11_LookupOrder ==
    (AllReturned /\ resp.op = "dispatch" /\ resp.args.vehicle_id # "") =>
        /\ resp.args.phone \notin DOMAIN phone_to_location =>
              resp.code = 404 /\ resp.body = "Emergency location not found"
        /\ (resp.args.phone \in DOMAIN phone_to_location
                /\ FindVehicle(resp.args.vehicle_id) = 0) =>
              resp.code = 404 /\ resp.body = "Vehicle not found"

C11_FailureChangesNothing ==
    (requests' # requests /\ resp'.op = "dispatch" /\ resp'.code = 404) =>
        /\ vehicles' = vehicles
        /\ phone_locations' = phone_locations
        /\ phone_to_location' = phone_to_location

C11_FailedDispatchExplicit ==
    []C11_LookupOrder /\ [][C11_FailureChangesNothing]_vars

\* an unknown vehicle id was refused for a phone with a live location, in a
\* registry an earlier request had written to
C11_VehicleNotFoundAfterWrites ==
    /\ AllReturned
    /\ resp.op = "dispatch" /\ resp.code = 404 /\ resp.body = "Vehicle not found"
    /\ resp.args.phone \in DOMAIN phone_to_location
    /\ \E i \in DOMAIN vehicles : vehicles[i].eta # "N/A"

EtasPcs == {"etas_eta", "etas_seteta", "etas_append"}

\* a coordinate float() cannot parse
Malformed(location) ==
    location.present /\ (FloatRaises(location.lat) \/ FloatRaises(location.lng))

\* C12: a calculate_etas given a target and ids returns one summary per
\* registry vehicle whose id was requested, in registry order, each with the
\* eta now stored on that vehicle; ids outside the registry cause no error;
\* the call rewrites the eta of requested vehicles only.
C12_OneSummaryPerMatch ==
    (AllReturned /\ resp.op = "calculate_etas" /\ resp.code = 200) =>
        LET matched == SelectSeq(vehicles, LAMBDA v : v.id \in resp.args.vehicle_ids)
            etas == resp.body.etas
        IN  /\ Len(etas) = Len(matched)
            /\ \A k \in DOMAIN etas :
                  /\ etas[k].vehicleId = matched[k].id
                  /\ matched[k].eta = EtaOrNA(etas[k].etaMinutes)

C12_UnknownIdsNoError ==
    (AllReturned /\ resp.op = "calculate_etas" /\ resp.code # 200) =>
        \/ ~resp.args.emergency_location.present
        \/ resp.args.vehicle_ids = {}
        \/ Malformed(resp.args.emergency_location)
        \/ \E i \in DOMAIN vehicles :
              /\ vehicles[i].id \in resp.args.vehicle_ids
              /\ \/ FloatRaises(vehicles[i].location.latitude)
                 \/ FloatRaises(vehicles[i].location.longitude)

C12_OthersKeepEta ==
    \A t \in ThreadIds : \A i \in DOMAIN vehicles :
        (pc[t] \in EtasPcs /\ vehicles[i].id \notin local[t].vehicle_ids)
        => vehicles'[i].eta = vehicles[i].eta

C12_BatchCoversRequestedOnly ==
    /\ [](C12_OneSummaryPerMatch /\ C12_UnknownIdsNoError)
    /\ [][C12_OthersKeepEta]_vars

\* a batch naming v2 and an id outside the registry returned one summary and
\* left the differing eta an earlier request had stored on the first vehicle
C12_UnknownIdSkipped ==
    /\ AllReturned
    /\ resp.op = "calculate_etas" /\ resp.code = 200
    /\ resp.args.vehicle_ids = {"v2", "v9"}
    /\ Len(resp.body.etas) = 1
    /\ vehicles[1].eta \notin {"N/A", vehicles[2].eta}

\* C13: a calculate_etas whose target or whose id list is empty or absent
\* answers 400 "Missing location or vehicle IDs" without entering its loop,
\* and the step changes no vehicle.
C13_MissingParameters ==
    /\ (resp.op = "calculate_etas"
          /\ (~resp.args.emergency_location.present \/ resp.args.vehicle_ids = {}))
       => (resp.code = 400 /\ resp.body = "Missing location or vehicle IDs")
    /\ \A t \in ThreadIds :
          pc[t] \in EtasPcs =>
              (local[t].emergency_location.present /\ local[t].vehicle_ids # {})

C13_FailureChangesNothing ==
    (requests' # requests /\ resp'.op = "calculate_etas" /\ resp'.code = 400)
    => vehicles' = vehicles

C13_MissingParametersRefused ==
    []C13_MissingParameters /\ [][C13_FailureChangesNothing]_vars

\* a batch with a target and no ids was refused in a registry that an earlier
\* request had written to
C13_EmptyIdsRefused ==
    /\ AllReturned
    /\ resp.op = "calculate_etas" /\ resp.code = 400
    /\ resp.args.emergency_location.present
    /\ resp.args.vehicle_ids = {}
    /\ \E i \in DOMAIN vehicles : vehicles[i].eta # "N/A"

\* a thread at one of these has just taken the ETA of vehicle local.idx to
\* local.emergency_location (lines 140, 166, 217)
ComputedPcs == {"location_seteta", "etas_seteta", "dispatch_available"}

\* a pair of numbers within latitude [-90, 90] and longitude [-180, 180]
InRange(lat, lng) ==
    /\ lat.k = "num" /\ lng.k = "num"
    /\ Abs(lat.v) <= 900000 /\ Abs(lng.v) <= 1800000

\* C14: an ETA just computed is 0 exactly when a coordinate of the pair is
\* absent or invalid or the two points are the same, and is at least 1 minute
\* for two valid points in range, zero values included, that differ.
C14_ZeroOnlyWhenInvalidOrSame ==
    \A t \in ThreadIds :
        pc[t] \in ComputedPcs =>
            LET v == vehicles[local[t].idx].location
                e == local[t].emergency_location
                valid == /\ InRange(v.latitude, v.longitude)
                         /\ e.present /\ InRange(e.lat, e.lng)
                same == v.latitude = e.lat /\ v.longitude = e.lng
            IN  /\ (local[t].eta.tenths = 0) <=> (~valid \/ same)
                /\ (valid /\ ~same) => local[t].eta.tenths >= 10

\* C15: an update_location call changes at most the live-map entry of its
\* phone, which then holds the location given; the reference map, the
\* vehicles and the other live entries stay as they were, and what
\* get_location returns for a phone is the seeded record whatever was
\* reported for it.
C15_OnlyThatEntry ==
    (requests' # requests /\ resp'.op = "update_location") =>
        /\ vehicles' = vehicles
        /\ phone_locations' = phone_locations
        /\ DOMAIN phone_to_location' \subseteq DOMAIN phone_to_location \cup {resp'.args.phone}
        /\ \A ph \in DOMAIN phone_to_location \ {resp'.args.phone} :
              ph \in DOMAIN phone_to_location'
                 /\ phone_to_location'[ph] = phone_to_location[ph]
        /\ IF resp'.code = 200
           THEN phone_to_location'[resp'.args.phone] = resp'.args.emergency_location
           ELSE phone_to_location' = phone_to_location

C15_ResolutionUnaffected ==
    (AllReturned /\ resp.op = "get_location") =>
        /\ resp.code = 404 <=> resp.args.phone \notin DOMAIN SeededPhoneLocations
        /\ resp.code = 200 =>
              /\ resp.body.location =
                    Loc(Num(SeededPhoneLocations[resp.args.phone].lat),
                        Num(SeededPhoneLocations[resp.args.phone].lng))
              /\ resp.body.address = SeededPhoneLocations[resp.args.phone].address

C15_RecordTouchesLiveEntryOnly ==
    [][C15_OnlyThatEntry]_vars /\ []C15_ResolutionUnaffected

\* get_location returned the seeded record of a phone for which another
\* location had been reported, a second phone having a live entry too
C15_ResolvedDespiteReport ==
    /\ AllReturned
    /\ resp.op = "get_location" /\ resp.code = 200
    /\ resp.args.phone \in DOMAIN phone_to_location
    /\ phone_to_location[resp.args.phone] # resp.body.location
    /\ Cardinality(DOMAIN phone_to_location) = 2

\* C16: with requests served one at a time, once a dispatch has written
\* available = False (before its line 221) or status = EN_ROUTE (before its
\* line 222) on its vehicle, the vehicle's eta is already the one this
\* dispatch computed.
C16_EtaWrittenBeforeTransition ==
    \A t \in ThreadIds :
        pc[t] \in {"dispatch_status", "dispatch_seteta"} =>
            /\ ~vehicles[local[t].idx].available
            /\ vehicles[local[t].idx].eta = DispatchEtaString(local[t].eta)

\* a thread at one of these is about to take the ETA of vehicle local.idx
ComputePcs == {"location_eta", "etas_eta", "dispatch_eta"}

\* C17: the step that computes the ETA of vehicle local.idx changes the
\* distance of no other vehicle, and when the four coordinates are present
\* numbers it leaves on that vehicle the rounded distance to the target.
C17_DistanceStoredOnVehicle ==
    \A t \in ThreadIds :
        (pc[t] \in ComputePcs /\ pc'[t] \in ComputedPcs) =>
            LET i == local[t].idx
                v == vehicles[i].location
                e == local[t].emergency_location
            IN  /\ \A j \in DOMAIN vehicles \ {i} :
                      vehicles'[j].distance = vehicles[j].distance
                /\ (Truthy(v.latitude) /\ Truthy(v.longitude)
                        /\ Truthy(e.lat) /\ Truthy(e.lng)) =>
                      vehicles'[i].distance =
                          Round1(haversine(v.latitude.v, v.longitude.v, e.lat.v, e.lng.v))

C17_DistanceAppliedToItself == [][C17_DistanceStoredOnVehicle]_vars

\* C18: a dispatch is refused only for a missing argument, a phone without a
\* live location, an id outside the registry or a coordinate float() cannot
\* parse, never for the state of the vehicle, and a successful one leaves the
\* vehicle EN_ROUTE and not available; a dispatch that follows a successful
\* dispatch of the same vehicle to the same phone changes no vehicle in any
\* of its steps and succeeds too.
C18_NeverRefusedForStatus ==
    (AllReturned /\ resp.op = "dispatch") =>
        IF resp.code = 200
        THEN /\ vehicles[FindVehicle(resp.args.vehicle_id)].status = "EN_ROUTE"
             /\ ~vehicles[FindVehicle(resp.args.vehicle_id)].available
        ELSE \/ resp.args.vehicle_id = ""
             \/ resp.args.phone \notin DOMAIN phone_to_location
             \/ FindVehicle(resp.args.vehicle_id) = 0
             \/ Malformed(phone_to_location[resp.args.phone])
             \/ FloatRaises(vehicles[FindVehicle(resp.args.vehicle_id)].location.latitude)
             \/ FloatRaises(vehicles[FindVehicle(resp.args.vehicle_id)].location.longitude)

C18_RepeatedDispatchNoChange ==
    \A t \in ThreadIds :
        (/\ pc[t] \in DispatchPcs
         /\ resp.op = "dispatch" /\ resp.code = 200
         /\ local[t].vehicle_id = resp.args.vehicle_id
         /\ local[t].phone = resp.args.phone)
        => /\ vehicles' = vehicles
           /\ pc'[t] = "idle" => resp'.code = 200

C18_RedispatchIdempotent ==
    []C18_NeverRefusedForStatus /\ [][C18_RepeatedDispatchNoChange]_vars

\* the dispatch that followed a successful dispatch of the same vehicle to
\* the same phone is about to return
C18_SecondDispatchReturning ==
    /\ pc[1] = "dispatch_return"
    /\ resp.op = "dispatch" /\ resp.code = 200
    /\ local[1].vehicle_id = resp.args.vehicle_id
    /\ local[1].phone = resp.args.phone
    /\ vehicles[local[1].idx].status = "EN_ROUTE"

\* C19: a dispatch past its lookups works on the location last reported for
\* its phone, and the ETA it holds is the one to that location; a phone that
\* has a live entry keeps one, and a dispatch of a registry vehicle to such a
\* phone never answers "Emergency location not found".
C19_DispatchUsesLiveEntry ==
    /\ \A t \in ThreadIds :
          pc[t] \in DispatchPcs =>
              /\ local[t].phone \in DOMAIN phone_to_location
              /\ local[t].emergency_location = phone_to_location[local[t].phone]
              /\ pc[t] # "dispatch_eta" =>
                    local[t].eta =
                        calculate_eta(vehicles, vehicles[local[t].idx].location,
                                      phone_to_location[local[t].phone]).eta
    /\ (AllReturned /\ resp.op = "dispatch" /\ resp.code = 404
            /\ resp.body = "Emergency location not found")
       => resp.args.phone \notin DOMAIN phone_to_location

C19_LastWriterWins ==
    /\ \A ph \in DOMAIN phone_to_location : ph \in DOMAIN phone_to_location'
    /\ (requests' # requests /\ resp'.op = "update_location" /\ resp'.code = 200)
       => phone_to_location'[resp'.args.phone] = resp'.args.emergency_location

C19_DispatchReadsLastReport ==
    []C19_DispatchUsesLiveEntry /\ [][C19_LastWriterWins]_vars

\* the third request is a dispatch to the phone of the report just before it
\* and holds the ETA to the location of that report
C19_DispatchAfterReports ==
    /\ requests = 3
    /\ pc[1] = "dispatch_available"
    /\ resp.op = "update_location" /\ resp.code = 200
    /\ resp.args.phone = local[1].phone
    /\ resp.args.emergency_location = local[1].emergency_location
    /\ local[1].eta.tenths > 10

\* C20: no step adds, removes or reorders vehicles or changes the id, type
\* or location of one, and a step that changes the live vehicle map changes
\* nothing else of the processor.
C20_MembershipKept ==
    /\ Len(vehicles') = Len(vehicles)
    /\ \A i \in DOMAIN vehicles :
          /\ vehicles'[i].id = vehicles[i].id
          /\ vehicles'[i].type = vehicles[i].type
          /\ vehicles'[i].location = vehicles[i].location

C20_TrackingTouchesLiveMapOnly ==
    vehicle_locations' # vehicle_locations =>
        /\ vehicles' = vehicles
        /\ phone_locations' = phone_locations
        /\ phone_to_location' = phone_to_location

C20_RegistryFixed ==
    [][C20_MembershipKept /\ C20_TrackingTouchesLiveMapOnly]_vars

\* get_location has refreshed the etas of a registry whose first vehicle has
\* a live position that is not its catalog location
C20_TrackedElsewhere ==
    /\ AllReturned
    /\ resp.op = "get_location" /\ resp.code = 200
    /\ get_vehicle_location(vehicles[1].id).present
    /\ get_vehicle_location(vehicles[1].id).lat # vehicles[1].location.latitude
    /\ vehicles[1].eta # "N/A"

=============================================================================
